---- MODULE Spec2Model ----
(***************************************************************************)
(* APNG-Builder (apng.js): the APNGmaker class, which parses one PNG per    *)
(* canvas concurrently (add / lookForIDAT), and assembles the extracted     *)
(* IDAT blocks into one animated PNG (build / buildChunk / crc32).          *)
(*                                                                         *)
(* Buffers are sequences of bytes (0..255); the byte at JavaScript offset o *)
(* of buffer ab is ab[o+1].  TLC integers are 32-bit signed, so a 32-bit    *)
(* CRC register is kept as its four bytes, most significant first.          *)
(***************************************************************************)
EXTENDS Integers, Sequences, FiniteSets, TLC

VARIABLES
  \* ---- APNGmaker: constructor arguments
  canvases,      \* images: the array of canvases given to the constructor
  FPSarg,        \* FPS argument: <<>> when omitted, <<v>> when given
  numplaysArg,   \* numplays argument: <<>> when omitted, <<v>> when given
  \* ---- APNGmaker: object and control state
  this,          \* the object's fields (width, height, FPS, numplays, ...)
  pc,            \* position of the constructor and of its async function
  task,          \* task[i]: position of the async call add(i, images[i])
  imageEncoded,  \* indices whose "imageEncoded" event was dispatched, in order
  out,           \* <<>> or <<blob>>: the value the returned promise resolved to
  \* ---- lookForIDAT, run step by step on one buffer
  ab,            \* the ArrayBuffer given to lookForIDAT
  encoded,       \* the description the buffer ab was encoded from
  offset,        \* var offset
  IDATs,         \* var IDATs
  status         \* "idle", "loop" (in the while loop), "returned", "threw"

vars == <<canvases, FPSarg, numplaysArg, this, pc, task, imageEncoded, out,
          ab, encoded, offset, IDATs, status>>

makerVars == <<canvases, FPSarg, numplaysArg, this, pc, task, imageEncoded, out>>
lookVars == <<ab, encoded, offset, IDATs, status>>

(***************************************************************************)
(* Bounds of the model.                                                     *)
(***************************************************************************)
MaxFrames == 2     \* canvases given to one APNGmaker
MaxChunks == 2     \* IDAT chunks in one encoded PNG
MaxBlockLen == 2   \* bytes in the data region of one IDAT chunk
MaxCut == 17       \* bytes a truncated PNG may miss at its end

(***************************************************************************)
(* Bytes, big-endian fields and buffers.                                    *)
(***************************************************************************)
Byte == 0..255

\* DataView.setUint32(0, n) on a fresh 4-byte buffer (big-endian), n < 2^31.
setUint32(n) ==
  << (n \div 16777216) % 256, (n \div 65536) % 256, (n \div 256) % 256, n % 256 >>

\* DataView.setUint16(o, n) (big-endian): the value is taken modulo 2^16.
setUint16(n) == << (n \div 256) % 256, n % 256 >>

\* DataView.getUint32(o) (big-endian) of buffer b, o a JavaScript offset.
getUint32(b, o) ==
  b[o + 1] * 16777216 + b[o + 2] * 65536 + b[o + 3] * 256 + b[o + 4]

getUint16(b, o) == b[o + 1] * 256 + b[o + 2]

\* new Uint8Array(b, o, n): the n bytes of b from offset o.
Slice(b, o, n) == [k \in 1..n |-> b[o + k]]

RECURSIVE joinFrom(_, _)
joinFrom(buffers, k) ==
  IF k > Len(buffers) THEN << >> ELSE buffers[k] \o joinFrom(buffers, k + 1)

\* joinBuffers(...buffers): the concatenation of the buffers, in order.
joinBuffers(buffers) == joinFrom(buffers, 1)

\* type.charCodeAt(0..3) of the chunk types the code uses.
TagIHDR == << 73, 72, 68, 82 >>
TagacTL == << 97, 99, 84, 76 >>
TagfcTL == << 102, 99, 84, 76 >>
TagIDAT == << 73, 68, 65, 84 >>
TagfdAT == << 102, 100, 65, 84 >>
TagIEND == << 73, 69, 78, 68 >>

(***************************************************************************)
(* crc32: table-driven reflected CRC-32.                                    *)
(***************************************************************************)
RECURSIVE XorNat(_, _)
XorNat(a, b) ==
  IF a = 0 THEN b
  ELSE IF b = 0 THEN a
  ELSE ((a + b) % 2) + 2 * XorNat(a \div 2, b \div 2)

\* a ^ b on bytes, tabulated once.
XorByte == [a \in Byte |-> [b \in Byte |-> XorNat(a, b)]]

\* a ^ b on 32-bit words held as four bytes.
Xor32(a, b) == [k \in 1..4 |-> XorByte[a[k]][b[k]]]

\* 3988292384 = 0xEDB88320
Poly == << 237, 184, 131, 32 >>

\* tmp >>> 1 on a 32-bit word held as four bytes.
Shr1(w) ==
  << w[1] \div 2,
     (w[2] \div 2) + 128 * (w[1] % 2),
     (w[3] \div 2) + 128 * (w[2] % 2),
     (w[4] \div 2) + 128 * (w[3] % 2) >>

RECURSIVE TableEntry(_, _)
TableEntry(tmp, k) ==
  IF k = 0 THEN tmp
  ELSE TableEntry(IF tmp[4] % 2 = 1 THEN Xor32(Poly, Shr1(tmp)) ELSE Shr1(tmp), k - 1)

table == [i \in Byte |-> TableEntry(<< 0, 0, 0, i >>, 8)]

RECURSIVE crcLoop(_, _, _)
crcLoop(data, i, crc) ==
  IF i > Len(data) THEN crc
  ELSE crcLoop(data, i + 1,
               Xor32(<< 0, crc[1], crc[2], crc[3] >>,
                     table[XorByte[crc[4]][data[i]]]))

\* crc32(ab): (crc ^ -1) >>> 0 after the loop, as four big-endian bytes.
crc32(data) ==
  Xor32(crcLoop(data, 1, << 255, 255, 255, 255 >>), << 255, 255, 255, 255 >>)

\* buildChunk(type, data): length | type | data | crc32(type | data)
buildChunk(type, data) ==
  joinBuffers(<< setUint32(Len(data)), type, data, crc32(joinBuffers(<< type, data >>)) >>)

(***************************************************************************)
(* The canvases and the platform's PNG encoder (canvas.toBlob).  A canvas   *)
(* is described by its size and by what the encoder emits for it: the data  *)
(* regions of its IDAT chunks, and how the emitted buffer departs from      *)
(* signature | IHDR | IDAT* | IEND, if it does.                             *)
(***************************************************************************)
PNGSignature == << 137, 80, 78, 71, 13, 10, 26, 10 >>
TagXXXX == << 88, 88, 88, 88 >>

\* A declared chunk length far beyond any buffer (0x7FFFFF00).
HugeLength == 2147483392

\* The data region of the j-th IDAT chunk, n bytes long.
Block(j, n) == [k \in 1..n |-> 16 * j + k]

Payload(lens) == [j \in 1..Len(lens) |-> Block(j, lens[j])]

LenSeqs == UNION {[1..k -> 0..MaxBlockLen] : k \in 0..MaxChunks}

NoDefect == [kind |-> "none", at |-> 0, n |-> 0]

\* cut: the last n bytes are missing; ancillary: a chunk of another type
\* follows the first `at` IDAT chunks; length: the length field of IDAT
\* chunk `at` declares n bytes.
Defects(blocks) ==
  {NoDefect}
  \cup {[kind |-> "cut", at |-> 0, n |-> n] : n \in 1..MaxCut}
  \cup {[kind |-> "ancillary", at |-> a, n |-> 0] : a \in 0..Len(blocks)}
  \cup UNION {{[kind |-> "length", at |-> a, n |-> n] :
                  n \in {0, Len(blocks[a]) + 1, HugeLength}} : a \in 1..Len(blocks)}

IHDRdata(w, h) == joinBuffers(<< setUint32(w), setUint32(h), << 8, 6, 0, 0, 0 >> >>)

EncodedChunk(can, j) ==
  LET c == buildChunk(TagIDAT, can.blocks[j])
      d == can.defect
  IN  joinBuffers(<<
        IF d.kind = "length" /\ d.at = j
          THEN setUint32(d.n) \o SubSeq(c, 5, Len(c)) ELSE c,
        IF d.kind = "ancillary" /\ d.at = j
          THEN buildChunk(TagXXXX, << >>) ELSE << >> >>)

\* The bytes canvas.toBlob hands back for canvas can.
encodePNG(can) ==
  LET d == can.defect
      whole == joinBuffers(<<
                 PNGSignature,
                 buildChunk(TagIHDR, IHDRdata(can.width, can.height)),
                 IF d.kind = "ancillary" /\ d.at = 0
                   THEN buildChunk(TagXXXX, << >>) ELSE << >>,
                 joinBuffers([j \in 1..Len(can.blocks) |-> EncodedChunk(can, j)]),
                 buildChunk(TagIEND, << >>) >>)
  IN  IF d.kind = "cut" THEN SubSeq(whole, 1, Len(whole) - d.n) ELSE whole

WellFormed(can) == can.defect = NoDefect

(***************************************************************************)
(* lookForIDAT(ab)                                                          *)
(***************************************************************************)
\* Advance as a bug would have it: offset += l.
AdvanceByLength(off, l) == off + l

\* offset += l+12
Advance(off, l) == off + l + 12

\* DataOffset as a bug would have it: the copy starts at the type field.
DataOffsetAtType(off) == off

\* new Uint8Array(ab,offset+4,l): where the data region of the chunk starts.
DataOffset(off) == off + 4

\* One pass through the body of while(!end): the IDAT case copies l bytes
\* and moves the cursor, the IEND case ends the loop, any other type
\* throws.  new Uint8Array(ab, o, n) throws a RangeError when o + n exceeds
\* ab.byteLength (for a huge l, new ArrayBuffer(l) may throw first).
LoopBody(b, off, acc) ==
  IF off + 4 > Len(b)
    THEN [status |-> "threw", offset |-> off, IDATs |-> acc]
  ELSE LET chunktype == Slice(b, off, 4) IN
    CASE chunktype = TagIDAT ->
           LET l == getUint32(b, off - 4) IN
             IF l > Len(b) - DataOffset(off)
               THEN [status |-> "threw", offset |-> off, IDATs |-> acc]
               ELSE [status |-> "loop", offset |-> Advance(off, l),
                     IDATs |-> Append(acc, Slice(b, DataOffset(off), l))]
      [] chunktype = TagIEND ->
           [status |-> "returned", offset |-> off, IDATs |-> acc]
      [] OTHER ->
           [status |-> "threw", offset |-> off, IDATs |-> acc]

RECURSIVE lookFrom(_, _, _)
lookFrom(b, off, acc) ==
  LET r == LoopBody(b, off, acc) IN
    IF r.status = "loop" THEN lookFrom(b, r.offset, r.IDATs) ELSE r

\* signature 8 bytes + IHDR 25 bytes + length IDAT chunk 4 bytes
StartOffset == 37

\* The whole call: its outcome ("returned" or "threw") and the blocks.
lookForIDAT(b) == lookFrom(b, StartOffset, << >>)

(***************************************************************************)
(* JavaScript arrays with holes (this.images is filled by index): a         *)
(* function from the indices that were assigned, counted from 0.            *)
(***************************************************************************)
EmptyArray == [k \in {} |-> << >>]

\* arr.length
ArrayLength(arr) ==
  IF DOMAIN arr = {} THEN 0
  ELSE 1 + CHOOSE m \in DOMAIN arr : \A k \in DOMAIN arr : k <= m

\* arr[i] = v
ArraySet(arr, i, v) == [k \in DOMAIN arr \cup {i} |-> IF k = i THEN v ELSE arr[k]]

RECURSIVE SortedFrom(_, _)
SortedFrom(S, k) ==
  IF S = {} THEN << >>
  ELSE IF k \in S THEN << k >> \o SortedFrom(S \ {k}, k + 1)
  ELSE SortedFrom(S, k + 1)

\* The indices arr.forEach visits, in the order it visits them.
ForEachOrder(arr) == SortedFrom(DOMAIN arr, 0)

(***************************************************************************)
(* APNGmaker                                                                *)
(***************************************************************************)
\* x || dflt for an optional numeric argument: undefined and 0 are falsy.
OrDefault(arg, dflt) == IF arg = << >> \/ arg[1] = 0 THEN dflt ELSE arg[1]

\* FPSfield as a bug would have it: the default only for an omitted FPS.
FPSfieldIfOmitted(arg) == IF arg = << >> THEN 30 ELSE arg[1]

\* this.FPS=FPS||30
FPSfield(arg) == OrDefault(arg, 30)

\* this.numplays=numplays||0
numplaysField(arg) == OrDefault(arg, 0)

\* The fixed 12 bytes the constructor stores in this.iEND.
iENDbytes == << 0, 0, 0, 0, 73, 69, 78, 68, 174, 66, 96, 130 >>

NoThis ==
  [width |-> 0, height |-> 0, FPS |-> 0, numplays |-> 0, signature |-> << >>,
   IHDR |-> << >>, iEND |-> << >>, frames |-> << >>, images |-> EmptyArray]

\* The fields the constructor sets before it starts the add tasks.
Constructed(images, fps, plays) ==
  [width |-> images[1].width,
   height |-> images[1].height,
   FPS |-> FPSfield(fps),
   numplays |-> numplaysField(plays),
   signature |-> PNGSignature,
   IHDR |-> buildChunk(TagIHDR, IHDRdata(images[1].width, images[1].height)),
   iEND |-> iENDbytes,
   frames |-> << >>,
   images |-> EmptyArray]

\* Slot as a bug would have it: this.images.push(IDATes).
SlotPush(i, images) == ArrayLength(images)

\* this.images[i]=IDATes: the slot task i writes.
Slot(i, images) == i

\* AllFulfilled as a bug would have it: Promise.allSettled in place of all.
AllSettled(t) == \A i \in DOMAIN t : t[i] \in {"fulfilled", "rejected"}

\* await Promise.all(p) resumes normally once every add task has fulfilled.
AllFulfilled(t) == \A i \in DOMAIN t : t[i] = "fulfilled"

\* await Promise.all(p) throws as soon as one add task has rejected.
SomeRejected(t) == \E i \in DOMAIN t : t[i] = "rejected"

----------------------------------------------------------------------------
\* build()

\* acTLdata as a bug would have it: this.frames.length (still 0) as num_frames.
acTLdataFromFrames(self) ==
  joinBuffers(<< setUint32(Len(self.frames)), setUint32(self.numplays) >>)

\* dv_acTL: num_frames, numplays
acTLdata(self) ==
  joinBuffers(<< setUint32(ArrayLength(self.images)), setUint32(self.numplays) >>)

\* The 26 bytes of one fcTL: sequence_number, width, height, x_offset and
\* y_offset (left zero), delay_num, delay_den, dispose_op, blend_op.
fcTLdata(self, seq) ==
  joinBuffers(<< setUint32(seq), setUint32(self.width), setUint32(self.height),
                 << 0, 0, 0, 0 >>, << 0, 0, 0, 0 >>,
                 setUint16(1), setUint16(self.FPS), << 0 >>, << 0 >> >>)

\* First image: every block becomes an IDAT chunk.
IDATchunks(data) == [j \in 1..Len(data) |-> buildChunk(TagIDAT, data[j])]

\* fdATseq as a bug would have it: seq in place of seq++.
fdATseqNoIncrement(seq, j) == seq

\* The sequence number of the j-th fdAT of a frame, seq being the counter
\* after the frame's fcTL took its number.
fdATseq(seq, j) == seq + (j - 1)

\* Later images: every block becomes an fdAT chunk, sequence number first.
fdATChunks(data, seq) ==
  [j \in 1..Len(data) |->
     buildChunk(TagfdAT, joinBuffers(<< setUint32(fdATseq(seq, j)), data[j] >>))]

\* IsFirst as a bug would have it: indices counted from 1.
IsFirstFromOne(i) == i = 1

\* if (i==0)
IsFirst(i) == i = 0

\* What one call of the forEach callback pushes on this.frames.
frameSegment(self, data, i, seq) ==
  joinBuffers(<< buildChunk(TagfcTL, fcTLdata(self, seq)) >>
              \o (IF IsFirst(i) THEN IDATchunks(data) ELSE fdATChunks(data, seq + 1)))

\* The value of seq after that call.
seqAfter(data, i, seq) == IF IsFirst(i) THEN seq + 1 ELSE seq + 1 + Len(data)

RECURSIVE forEachImage(_, _, _, _, _)
forEachImage(self, order, k, seq, frames) ==
  IF k > Len(order) THEN frames
  ELSE LET i == order[k]
           data == self.images[i]
       IN  forEachImage(self, order, k + 1, seqAfter(data, i, seq),
                        Append(frames, frameSegment(self, data, i, seq)))

\* this.frames after build()
builtFrames(self) == forEachImage(self, ForEachOrder(self.images), 1, 0, self.frames)

\* The parts handed to new Blob, in order.
BlobParts(self, frames) ==
  << self.signature, self.IHDR, buildChunk(TagacTL, acTLdata(self)) >>
  \o frames \o << self.iEND >>

\* The Blob build() returns: its bytes and its type.
build(self) ==
  [bytes |-> joinBuffers(BlobParts(self, builtFrames(self))), type |-> "image/apng"]

----------------------------------------------------------------------------
\* The arguments a caller may give.
FPSValues == {0, 1, 300, 65535}
NumplaysValues == {2}
OptionalArg(S) == {<< >>} \cup {<< v >> : v \in S}

\* Payload shapes of the canvases of a build: k blocks, of varied lengths.
FrameLens == {[j \in 1..k |-> (k + j) % (MaxBlockLen + 1)] : k \in 0..MaxChunks}

Canvas(lens, defect) ==
  [width |-> 300, height |-> 4, blocks |-> Payload(lens), defect |-> defect]

\* The canvases a build is given: well-formed ones, one whose PNG has an
\* ancillary chunk before IEND, and one whose PNG lacks its IEND chunk.
FrameCanvases ==
  {Canvas(lens, NoDefect) : lens \in FrameLens}
  \cup {Canvas(<< 1 >>, [kind |-> "ancillary", at |-> 1, n |-> 0]),
        Canvas(<< 1 >>, [kind |-> "cut", at |-> 0, n |-> 12])}

CanvasArrays == UNION {[1..f -> FrameCanvases] : f \in 0..MaxFrames}

Idle == /\ ab = << >>
        /\ encoded = Canvas(<< >>, NoDefect)
        /\ offset = 0
        /\ IDATs = << >>
        /\ status = "idle"

\* new APNGmaker(images, FPS, numplays) is about to run.
Init ==
  /\ canvases \in CanvasArrays
  /\ FPSarg \in OptionalArg(FPSValues)
  /\ numplaysArg \in OptionalArg(NumplaysValues)
  /\ this = NoThis
  /\ pc = "new"
  /\ task = EmptyArray
  /\ imageEncoded = << >>
  /\ out = << >>
  /\ Idle

\* The constructor with no canvas: images[0].width throws a TypeError.
ConstructorThrows ==
  /\ pc = "new"
  /\ Len(canvases) = 0
  /\ pc' = "threw"
  /\ UNCHANGED << canvases, FPSarg, numplaysArg, this, task, imageEncoded, out >>
  /\ UNCHANGED lookVars

\* The constructor: sets the fields, then its async function calls add(i,
\* images[i]) for every i (each runs up to its first await, on toBlob) and
\* awaits Promise.all; the pending promise is returned.
Constructor ==
  /\ pc = "new"
  /\ Len(canvases) > 0
  /\ this' = Constructed(canvases, FPSarg, numplaysArg)
  /\ task' = [i \in 0..(Len(canvases) - 1) |-> "toBlob"]
  /\ pc' = "awaitAll"
  /\ UNCHANGED << canvases, FPSarg, numplaysArg, imageEncoded, out >>
  /\ UNCHANGED lookVars

\* add(i): the toBlob callback resolves the blob; add awaits arrayBuffer().
ToBlobResolves(i) ==
  /\ task[i] = "toBlob"
  /\ task' = [task EXCEPT ![i] = "arrayBuffer"]
  /\ UNCHANGED << canvases, FPSarg, numplaysArg, this, pc, imageEncoded, out >>
  /\ UNCHANGED lookVars

\* add(i): the buffer arrives, lookForIDAT returns, the blocks are stored
\* and the imageEncoded event is dispatched.
AddStores(i) ==
  /\ task[i] = "arrayBuffer"
  /\ LET r == lookForIDAT(encodePNG(canvases[i + 1])) IN
       /\ r.status = "returned"
       /\ this' = [this EXCEPT !.images = ArraySet(@, Slot(i, @), r.IDATs)]
  /\ imageEncoded' = Append(imageEncoded, i)
  /\ task' = [task EXCEPT ![i] = "fulfilled"]
  /\ UNCHANGED << canvases, FPSarg, numplaysArg, pc, out >>
  /\ UNCHANGED lookVars

\* add(i): the buffer arrives and lookForIDAT throws; add's promise rejects.
AddThrows(i) ==
  /\ task[i] = "arrayBuffer"
  /\ lookForIDAT(encodePNG(canvases[i + 1])).status = "threw"
  /\ task' = [task EXCEPT ![i] = "rejected"]
  /\ UNCHANGED << canvases, FPSarg, numplaysArg, this, pc, imageEncoded, out >>
  /\ UNCHANGED lookVars

\* Every add fulfilled: the async function resumes and returns this.build().
AwaitReturnsBuild ==
  /\ pc = "awaitAll"
  /\ AllFulfilled(task)
  /\ this' = [this EXCEPT !.frames = builtFrames(this)]
  /\ out' = << build(this) >>
  /\ pc' = "fulfilled"
  /\ UNCHANGED << canvases, FPSarg, numplaysArg, task, imageEncoded >>
  /\ UNCHANGED lookVars

\* Some add rejected: the await throws and the returned promise rejects.
AwaitThrows ==
  /\ pc = "awaitAll"
  /\ SomeRejected(task)
  /\ pc' = "rejected"
  /\ UNCHANGED << canvases, FPSarg, numplaysArg, this, task, imageEncoded, out >>
  /\ UNCHANGED lookVars

Next ==
  \/ ConstructorThrows
  \/ Constructor
  \/ \E i \in DOMAIN task : ToBlobResolves(i)
  \/ \E i \in DOMAIN task : AddStores(i)
  \/ \E i \in DOMAIN task : AddThrows(i)
  \/ AwaitReturnsBuild
  \/ AwaitThrows

Spec == Init /\ [][Next]_vars

(***************************************************************************)
(* lookForIDAT step by step, on one buffer: one action per way through the  *)
(* body of its while loop.                                                  *)
(***************************************************************************)
\* Every buffer the encoder model can emit, well-formed or not.
LookCanvases ==
  UNION {{Canvas(lens, d) : d \in Defects(Payload(lens))} : lens \in LenSeqs}

NoMaker ==
  /\ canvases = << >>
  /\ FPSarg = << >>
  /\ numplaysArg = << >>
  /\ this = NoThis
  /\ pc = "none"
  /\ task = EmptyArray
  /\ imageEncoded = << >>
  /\ out = << >>

\* lookForIDAT(ab) has been called: IDATs is empty, offset is 37.
InitLook ==
  /\ encoded \in LookCanvases
  /\ ab = encodePNG(encoded)
  /\ offset = StartOffset
  /\ IDATs = << >>
  /\ status = "loop"
  /\ NoMaker

\* case "IDAT": the block is copied and the cursor moves past the chunk.
CaseIDAT ==
  /\ status = "loop"
  /\ LET r == LoopBody(ab, offset, IDATs) IN
       /\ r.status = "loop"
       /\ offset' = r.offset
       /\ IDATs' = r.IDATs
  /\ UNCHANGED << ab, encoded, status >>
  /\ UNCHANGED makerVars

\* case "IEND": end=true, the loop is left and IDATs is returned.
CaseIEND ==
  /\ status = "loop"
  /\ LoopBody(ab, offset, IDATs).status = "returned"
  /\ status' = "returned"
  /\ UNCHANGED << ab, encoded, offset, IDATs >>
  /\ UNCHANGED makerVars

\* default: throw; or a read beyond the buffer throws a RangeError.
Throws ==
  /\ status = "loop"
  /\ LoopBody(ab, offset, IDATs).status = "threw"
  /\ status' = "threw"
  /\ UNCHANGED << ab, encoded, offset, IDATs >>
  /\ UNCHANGED makerVars

NextLook == CaseIDAT \/ CaseIEND \/ Throws

LookSpec == InitLook /\ [][NextLook]_vars

\* The loop is ordinary sequential code: it keeps running while it can.
LookLive == LookSpec /\ WF_vars(NextLook)

(***************************************************************************)
(* Reading a byte stream back as PNG chunks, to state what the output is.   *)
(***************************************************************************)
RECURSIVE ChunksFrom(_, _, _)
ChunksFrom(bytes, pos, acc) ==
  IF pos = Len(bytes) THEN [ok |-> TRUE, chunks |-> acc]
  ELSE IF pos + 12 > Len(bytes) THEN [ok |-> FALSE, chunks |-> acc]
  ELSE LET l == getUint32(bytes, pos) IN
    IF l > Len(bytes) - (pos + 12) THEN [ok |-> FALSE, chunks |-> acc]
    ELSE ChunksFrom(bytes, pos + 12 + l,
                    Append(acc, [tag |-> Slice(bytes, pos + 4, 4),
                                 data |-> Slice(bytes, pos + 8, l),
                                 crc |-> Slice(bytes, pos + 8 + l, 4)]))

\* The chunks that follow the 8-byte signature of a stream.
ChunksOf(bytes) == ChunksFrom(bytes, 8, << >>)

Built == pc = "fulfilled" /\ out # << >>
NumFrames == Len(canvases)
OutChunks == ChunksOf(out[1].bytes).chunks
TagCount(cs, tag) == Cardinality({k \in 1..Len(cs) : cs[k].tag = tag})

\* The positions, in the output, of the chunks that carry a sequence number.
Sequenced(cs) == {k \in 1..Len(cs) : cs[k].tag \in {TagfcTL, TagfdAT}}

\* The positions of the chunks of frame segment i (from 0): from its fcTL up
\* to the next fcTL or to the final chunk.
SegmentOf(cs, i) ==
  {k \in 1..(Len(cs) - 1) :
     Cardinality({m \in 1..k : cs[m].tag = TagfcTL}) = i + 1}

\* The block a data chunk wraps: all of an IDAT, an fdAT after its prefix.
BlockOf(c) == IF c.tag = TagfdAT THEN SubSeq(c.data, 5, Len(c.data)) ELSE c.data

\* The blocks of frame segment i of the output, in output order.
SegmentBlocks(cs, i) ==
  LET ks == SortedFrom({k \in SegmentOf(cs, i) : cs[k].tag # TagfcTL}, 1)
  IN  [j \in 1..Len(ks) |-> BlockOf(cs[ks[j]])]

RECURSIVE BytesAfter(_, _)
\* In a well-formed buffer, the bytes between the length field of IDAT chunk
\* j and the type field of the IEND chunk.
BytesAfter(can, j) ==
  IF j > Len(can.blocks) THEN 0
  ELSE 12 + Len(can.blocks[j]) + BytesAfter(can, j + 1)

RECURSIVE BlocksBefore(_, _)
\* The number of blocks of frames 1..i-1 of array images.
BlocksBefore(images, i) ==
  IF i <= 1 THEN 0 ELSE Len(images[i - 1]) + BlocksBefore(images, i - 1)

(***************************************************************************)
(* C1: whatever the order in which the add tasks complete, when build has   *)
(* run this.images[i] holds the payload of input frame i, for every i, and  *)
(* the frame segments of the output carry the payloads in input order.      *)
(***************************************************************************)
C1_InputOrder ==
  Built =>
    /\ DOMAIN this.images = 0..(NumFrames - 1)
    /\ \A i \in 0..(NumFrames - 1) :
         /\ this.images[i] = canvases[i + 1].blocks
         /\ SegmentBlocks(OutChunks, i) = canvases[i + 1].blocks

\* Two frames with different payloads, the second completed first.
C1_Witness ==
  /\ Built
  /\ NumFrames = 2
  /\ imageEncoded = << 1, 0 >>
  /\ canvases[1].blocks # canvases[2].blocks

(***************************************************************************)
(* C2: once the extraction of one frame has failed, the build fails: the    *)
(* await throws (the returned promise rejects) whenever it runs, build is   *)
(* never invoked and no blob is produced, whatever the other tasks do.      *)
(***************************************************************************)
C2_AnyFailureFailsBuild ==
  SomeRejected(task) =>
    /\ pc \in {"awaitAll", "rejected"}
    /\ pc = "awaitAll" => ENABLED AwaitThrows
    /\ out = << >>
    /\ this.frames = << >>

\* A frame with an XXXX chunk was rejected, another frame was extracted, and
\* the returned promise is rejected.
C2_Witness ==
  /\ pc = "rejected"
  /\ \E i \in DOMAIN task :
       task[i] = "rejected" /\ canvases[i + 1].defect.kind = "ancillary"
  /\ \E j \in DOMAIN task : task[j] = "fulfilled"

(***************************************************************************)
(* C3: in output order the sequence numbers of the fcTL and fdAT chunks are *)
(* 0, 1, 2, ...; there are as many as fcTL chunks plus blocks of frames     *)
(* 1..F-1; the IDAT chunks of frame 0 take none.                            *)
(***************************************************************************)
C3_SequenceNumbers ==
  Built =>
    LET cs == OutChunks
        K == Sequenced(cs)
    IN  /\ \A k \in K :
             getUint32(cs[k].data, 0) = Cardinality({m \in K : m < k})
        /\ Cardinality(K) =
             TagCount(cs, TagfcTL) + BlocksBefore(this.images, NumFrames)
        /\ TagCount(cs, TagfcTL) = NumFrames
        /\ TagCount(cs, TagIDAT) = Len(this.images[0])
        /\ NumFrames >= 2 =>
             \E k \in K : /\ cs[k].tag = TagfcTL
                          /\ getUint32(cs[k].data, 0) = 1
                          /\ \A m \in SegmentOf(cs, 0) : m < k

\* Frame 0 has a block and frame 1 has two.
C3_Witness ==
  /\ Built
  /\ NumFrames = 2
  /\ Len(canvases[1].blocks) >= 1
  /\ Len(canvases[2].blocks) >= 2

(***************************************************************************)
(* C4: each frame segment is one fcTL chunk followed by the frame's blocks  *)
(* in payload order, as IDAT chunks holding exactly the block for frame 0   *)
(* and as fdAT chunks holding the running counter (4 bytes, big-endian)     *)
(* and then the block for the later frames; one frame gives one fcTL and    *)
(* no fdAT.                                                                 *)
(***************************************************************************)
C4_Framing ==
  Built =>
    LET cs == OutChunks IN
      /\ \A i \in 0..(NumFrames - 1) :
           LET data == this.images[i]
               ks == SortedFrom(SegmentOf(cs, i), 1)
               first == i + BlocksBefore(this.images, i)
           IN  /\ Len(ks) = 1 + Len(data)
               /\ \A j \in 1..(Len(ks) - 1) : ks[j + 1] = ks[j] + 1
               /\ cs[ks[1]].tag = TagfcTL
               /\ \A j \in 1..Len(data) :
                    LET c == cs[ks[j + 1]] IN
                      IF i = 0
                        THEN c.tag = TagIDAT /\ c.data = data[j]
                        ELSE /\ c.tag = TagfdAT
                             /\ c.data = setUint32(first + j) \o data[j]
      /\ NumFrames = 1 => TagCount(cs, TagfcTL) = 1 /\ TagCount(cs, TagfdAT) = 0

\* Two frames, each with at least one block.
C4_Witness ==
  /\ Built
  /\ NumFrames = 2
  /\ Len(this.images[0]) >= 1
  /\ Len(this.images[1]) >= 1

(***************************************************************************)
(* C5: the output is the 8-byte signature, one IHDR chunk, one acTL chunk   *)
(* whose numFrames is the number of fcTL chunks, the frame segments, and    *)
(* one IEND chunk with no payload; IHDR, acTL and IEND appear nowhere else. *)
(***************************************************************************)
C5_Structure ==
  Built =>
    LET bytes == out[1].bytes
        parsed == ChunksOf(bytes)
        cs == parsed.chunks
    IN  /\ Len(bytes) >= 8
        /\ SubSeq(bytes, 1, 8) = PNGSignature
        /\ parsed.ok
        /\ Len(cs) >= 3
        /\ cs[1].tag = TagIHDR
        /\ cs[2].tag = TagacTL
        /\ Len(cs[2].data) = 8
        /\ getUint32(cs[2].data, 0) = TagCount(cs, TagfcTL)
        /\ cs[Len(cs)].tag = TagIEND
        /\ cs[Len(cs)].data = << >>
        /\ \A k \in 3..(Len(cs) - 1) : cs[k].tag \in {TagfcTL, TagIDAT, TagfdAT}
        /\ Len(cs) > 3 => cs[3].tag = TagfcTL

\* A build of two frames.
C5_Witness == Built /\ NumFrames = 2 /\ Len(OutChunks) > 4

(***************************************************************************)
(* C6: on a buffer made of the signature, the IHDR chunk, k IDAT chunks and *)
(* an IEND chunk, lookForIDAT does not throw and returns exactly the k data *)
(* regions, in source order, each with the length its chunk declares.       *)
(***************************************************************************)
C6_ExtractsBlocks ==
  WellFormed(encoded) =>
    /\ status # "threw"
    /\ status = "returned" =>
         /\ Len(IDATs) = Len(encoded.blocks)
         /\ \A j \in 1..Len(IDATs) :
              /\ IDATs[j] = encoded.blocks[j]
              /\ Len(IDATs[j]) = getUint32(ab, offset - 4 - BytesAfter(encoded, j))

\* A well-formed buffer with the most chunks, one of them not empty, parsed.
C6_Witness ==
  /\ status = "returned"
  /\ WellFormed(encoded)
  /\ Len(IDATs) = MaxChunks
  /\ \E j \in 1..Len(IDATs) : Len(IDATs[j]) > 0

(***************************************************************************)
(* C7: a build given no frame does not fail: it completes with a stream     *)
(* made of the signature, IHDR, acTL with numFrames 0, and IEND.            *)
(***************************************************************************)
C7_EmptyBuildCompletes ==
  (NumFrames = 0 /\ pc # "new") =>
    /\ Built
    /\ LET cs == OutChunks IN
         /\ Len(cs) = 3
         /\ cs[1].tag = TagIHDR
         /\ cs[2].tag = TagacTL
         /\ getUint32(cs[2].data, 0) = 0
         /\ cs[3].tag = TagIEND

(***************************************************************************)
(* C8: every blob a build returns has the type "image/png".                 *)
(***************************************************************************)
C8_TypeIsImagePng == Built => out[1].type = "image/png"

(***************************************************************************)
(* C9: the fcTL chunks carry delay_num 1 and the delay_den the caller gave. *)
(***************************************************************************)
FcTLs(cs) == {k \in 1..Len(cs) : cs[k].tag = TagfcTL}

\* C9 as claimed: whatever FPS in 0..65535 is given, 0 included, it is
\* written unchanged as delay_den, with delay_num 1.
C9_DenominatorAsGiven ==
  (Built /\ FPSarg # << >>) =>
    \A k \in FcTLs(OutChunks) :
      /\ getUint16(OutChunks[k].data, 20) = 1
      /\ getUint16(OutChunks[k].data, 22) = FPSarg[1]

\* C9 as the code has it: delay_num is 1; an FPS in 1..65535 is written
\* unchanged as delay_den, and an FPS of 0 is replaced by the default, 30.
C9_DenominatorOrDefault ==
  (Built /\ FPSarg # << >>) =>
    \A k \in FcTLs(OutChunks) :
      /\ getUint16(OutChunks[k].data, 20) = 1
      /\ getUint16(OutChunks[k].data, 22) = (IF FPSarg[1] = 0 THEN 30 ELSE FPSarg[1])

\* A build of two frames, made with FPS 0.
C9_Witness == Built /\ FPSarg = << 0 >> /\ Cardinality(FcTLs(OutChunks)) = 2

(***************************************************************************)
(* C10: on every buffer, lookForIDAT ends, by returning or by throwing, and *)
(* each pass that takes an IDAT chunk moves the cursor on by at least 12.   *)
(***************************************************************************)
C10_Terminates ==
  /\ <>(status \in {"returned", "threw"})
  /\ [][(IDATs' # IDATs \/ offset' # offset) => offset' >= offset + 12]_vars

\* A buffer that is not well-formed, on which an IDAT chunk of declared
\* length 0 was taken before the call ended.
C10_Witness ==
  /\ status \in {"returned", "threw"}
  /\ ~WellFormed(encoded)
  /\ \E j \in 1..Len(IDATs) : IDATs[j] = << >>

====
